---- MODULE Spec2Model ----
(***************************************************************************)
(* gp4par: the place-and-route driver (DoPAR), the post-PAR design rule    *)
(* checks (PostPARDRC) and the lockstep label allocator (AllocateLabel) of *)
(* src/gp4par/par_main.cpp, over the graph model and the PAR engine that   *)
(* par_main.cpp calls (PARGraph, Greenpak4PAREngine, CommitChanges).       *)
(* gp4prog: main() of src/gp4prog/main.cpp, from the command line to the   *)
(* exit status.  greenpak4: Greenpak4NetlistModule::GetNode.               *)
(***************************************************************************)
EXTENDS Integers, Sequences, FiniteSets, TLC

\* ------------------------------------------------------------------ bounds
\* Number of nodes of the netlist graph.
NumNetNodes == 2
\* The engine's iteration budget (a configuration value of the engine).
MaxIterations == 2
\* Cap on the label counters of the two graphs (uint32_t in the code; the
\* cap keeps them far from the wrap).
MaxLabels == 4
MaxCommits == 3
MaxArgs == 3
MaxCalls == 4

\* ------------------------------------------------------- netlist and device
NNodes == 1..NumNetNodes
\* "No mate": the NULL pointer of PARGraphNode::GetMate, one per graph side.
NULLD == "NULL"
NULLN == 0

\* Netlist entity kinds. "PORT" is an entity that is not a cell (the
\* dynamic_cast to Greenpak4NetlistCell yields NULL); the others are m_type.
Types == {"GP_VDD", "GP_IOBUF", "GP_OBUF", "GP_DFF", "GP_DFFSR",
          "GP_SYSRESET", "GP_ACMP", "PORT"}
IsCell(t) == t # "PORT"

\* The device catalog: one graph node per site.
DNodes == {"VDD", "IOB3", "IOB6", "DFF0", "DFFSR0", "DFFSR1", "SYSRST",
           "ACMP0", "ACMP1", "ACMP2"}

SiteClass(d) ==
    CASE d = "VDD" -> "PowerRail"
      [] d \in {"IOB3", "IOB6"} -> "IOB"
      [] d = "DFF0" -> "DFF"
      [] d \in {"DFFSR0", "DFFSR1"} -> "DFFSR"
      [] d = "SYSRST" -> "SystemReset"
      [] OTHER -> "ACMP"

\* Greenpak4BitstreamEntity::GetOutputPorts of a site.
GetOutputPorts(d) ==
    CASE SiteClass(d) = "PowerRail" -> {"OUT"}
      [] SiteClass(d) = "IOB" -> {"OUT"}
      [] SiteClass(d) \in {"DFF", "DFFSR"} -> {"Q"}
      [] SiteClass(d) = "ACMP" -> {"OUT"}
      [] OTHER -> {}

GetInputPorts(d) ==
    CASE SiteClass(d) = "PowerRail" -> {}
      [] SiteClass(d) = "IOB" -> {"IN"}
      [] SiteClass(d) \in {"DFF", "DFFSR"} -> {"D"}
      [] SiteClass(d) = "ACMP" -> {"PWREN"}
      [] OTHER -> {"RST"}

\* Labels: one compatibility class per site class; a device node carries the
\* label of its class, a netlist node the labels of the classes hosting it.
DLabels(d) == {SiteClass(d)}

NLabels(t) ==
    CASE t = "GP_VDD" -> {"PowerRail"}
      [] t \in {"GP_IOBUF", "GP_OBUF", "PORT"} -> {"IOB"}
      [] t = "GP_DFF" -> {"DFF", "DFFSR"}
      [] t = "GP_DFFSR" -> {"DFFSR"}
      [] t = "GP_SYSRESET" -> {"SystemReset"}
      [] OTHER -> {"ACMP"}

\* The port a cell of type t drives a net from / is driven on ("" for none).
OutPortOf(t) ==
    CASE t \in {"GP_VDD", "GP_IOBUF", "PORT", "GP_ACMP"} -> "OUT"
      [] t \in {"GP_DFF", "GP_DFFSR"} -> "Q"
      [] OTHER -> ""

InPortOf(t) ==
    CASE t \in {"GP_IOBUF", "GP_OBUF", "PORT"} -> "IN"
      [] t \in {"GP_DFF", "GP_DFFSR"} -> "D"
      [] t = "GP_SYSRESET" -> "RST"
      [] t = "GP_ACMP" -> "PWREN"
      [] OTHER -> ""

\* The routing fabric: two matrices, fully crossbarred inside each; the power
\* rail reaches both, and a cross connection carries DFF0 into matrix 1.
Matrix(d) ==
    CASE d \in {"IOB3", "DFF0", "DFFSR0", "ACMP0", "ACMP1"} -> 0
      [] d = "VDD" -> 2
      [] OTHER -> 1

Reaches(a, b) ==
    /\ a # b
    /\ Matrix(a) = 2 \/ Matrix(a) = Matrix(b) \/ a = "DFF0"

\* Available edges of the device graph: <<from, to, src_port, dst_port>>.
DEdges ==
    {e \in DNodes \X DNodes \X {"OUT", "Q"} \X {"IN", "D", "RST", "PWREN"} :
        /\ Reaches(e[1], e[2])
        /\ e[3] \in GetOutputPorts(e[1])
        /\ e[4] \in GetInputPorts(e[2])}

\* Required edges a netlist of the given types can carry: a ring over the
\* nodes, each edge from the driver's output port to the load's input port.
Succ(i) == IF i = NumNetNodes THEN 1 ELSE i + 1

CandidateEdges(ty) ==
    {<<i, Succ(i), OutPortOf(ty[i]), InPortOf(ty[Succ(i)])>> :
        i \in {j \in NNodes : /\ OutPortOf(ty[j]) # ""
                              /\ InPortOf(ty[Succ(j)]) # ""
                              /\ Succ(j) # j}}

VARIABLES
    pc,         \* position of the process inside DoPAR / PostPARDRC
    ntype,      \* netlist graph: the entity of each node
    nedges,     \* netlist graph: the required edges
    nmate,      \* netlist node -> its mate (a device node or NULLD)
    dmate,      \* device node -> its mate (a netlist node or NULLN)
    placeIdx,   \* initial placement: the next netlist node to place
    iter,       \* search: iterations done
    result,     \* what PlaceAndRoute returned: "none", "success", "failure"
    ret,        \* what DoPAR returned: "none", "true", "false"
    part,       \* device->GetPart()
    device,     \* the mutable configuration of the sites
    device0,    \* the configuration at solver entry
    committed,  \* CommitChanges has run
    drcI,       \* PostPARDRC: index of the netlist node being checked
    drcDone,    \* PostPARDRC: the rules that ran to their end
    log,        \* the diagnostics printed so far
    reports,    \* the reports printed so far
    nNextLabel, \* netlist graph: next label id
    dNextLabel, \* device graph: next label id
    lmap,       \* the label map: a set of <<id, description>>
    lpc,        \* label allocation: "idle", "returned" right after a call of
                \* AllocateLabel returned, "exit" after its fatal error
    returned,   \* the AllocateLabel calls that returned: <<id, description>>
    sites,      \* the routing configuration of the sites: cell mode and the
                \* source selected by the input mux
    routes,     \* num_routes_used: the tally CommitChanges returns, per matrix
    commits,    \* the number of CommitChanges calls made
    sites1,     \* sites as they were after the first CommitChanges
    routes1,    \* routes as they were after the first CommitChanges
    argv,       \* gp4prog: the command line, one element per option with its
                \* argument
    opt,        \* gp4prog: the variables main() parses the command line into
    ppc,        \* gp4prog: position inside main()
    rc,         \* gp4prog: the exit status, "none" while running
    ops,        \* gp4prog: the board and file operations called so far
    kind,       \* gp4prog: bitstreamKind as DetectPart left it
    file,       \* gp4prog: what ReadBitstream finds in the bitstream file
    rcFtw,      \* gp4prog: the trim value, a uint8_t
    sent,       \* gp4prog: the bitstream handed to DownloadBitstream
    hdev,       \* gp4prog: OpenBoard found the board
    m_nodes,    \* netlist module: the map from net number to node, a set
                \* of <<netnum, node>>
    heap,       \* netlist module: the nodes allocated so far
    getCalls    \* netlist module: the GetNode calls made: <<netnum, node>>

graphVars == <<ntype, nedges>>
mateVars == <<nmate, dmate>>
engineVars == <<placeIdx, iter, result>>
deviceVars == <<part, device, device0, committed>>
drcVars == <<drcI, drcDone>>
outVars == <<log, reports>>
labelVars == <<nNextLabel, dNextLabel, lmap, lpc, returned>>
parVars == <<pc, graphVars, mateVars, engineVars, ret, deviceVars, drcVars,
             outVars>>
commitVars == <<sites, routes, commits, sites1, routes1>>
progVars == <<argv, opt, ppc, rc, ops, kind, file, rcFtw, sent, hdev>>
nodeVars == <<m_nodes, heap, getCalls>>
extVars == <<commitVars, progVars, nodeVars>>
vars == <<parVars, labelVars, extVars>>

\* ------------------------------------------------------------ graph model
\* A mate relation is a record [n |-> netlist side, d |-> device side].
Mates == [n |-> nmate, d |-> dmate]

NoMates == [n |-> [x \in NNodes |-> NULLD], d |-> [x \in DNodes |-> NULLN]]

\* A clear_mate that leaves the device node pointing at n.
clear_mate_OneSided(mt, n) == [n |-> [mt.n EXCEPT ![n] = NULLD], d |-> mt.d]

\* clear_mate(n): both endpoints forget the binding.
clear_mate(mt, n) ==
    IF mt.n[n] = NULLD THEN mt
    ELSE [n |-> [mt.n EXCEPT ![n] = NULLD],
          d |-> [mt.d EXCEPT ![mt.n[n]] = NULLN]]

\* A set_mate that leaves the former partner of d pointing at d.
set_mate_KeepsOldPartner(mt, n, d) ==
    LET a == clear_mate(mt, n)
    IN  [n |-> [a.n EXCEPT ![n] = d], d |-> [a.d EXCEPT ![d] = n]]

\* set_mate(n, d): both endpoints are updated, former partners are released.
set_mate(mt, n, d) ==
    LET a == clear_mate(mt, n)
        b == IF a.d[d] = NULLN THEN a ELSE clear_mate(a, a.d[d])
    IN  [n |-> [b.n EXCEPT ![n] = d], d |-> [b.d EXCEPT ![d] = n]]

\* PARGraphNode::GetEdgeCount: the number of edges leaving the node.
GetEdgeCount(n) == Cardinality({e \in nedges : e[1] = n})

\* The label constraint between a netlist node and a device node.
Compatible(n, d) == NLabels(ntype[n]) \cap DLabels(d) # {}

\* ------------------------------------------------------------- PAR engine
\* A required edge is routable when the device graph has an edge between the
\* mates of its endpoints with the same ports.
Routable(mt, e) ==
    /\ mt.n[e[1]] # NULLD
    /\ mt.n[e[2]] # NULLD
    /\ <<mt.n[e[1]], mt.n[e[2]], e[3], e[4]>> \in DEdges

Unroutable(mt) == {e \in nedges : ~Routable(mt, e)}

\* The cost function: the number of unroutable required edges.
Score(mt) == Cardinality(Unroutable(mt))

\* Netlist nodes contributing to the cost.
Contributing(mt) == {n \in NNodes : \E e \in Unroutable(mt) : n \in {e[1], e[2]}}

\* The placements one mutation of node n can produce: a swap with a node of
\* compatible labels, or a move to an unused compatible device node.
Swaps(mt, n) ==
    {set_mate(set_mate(mt, n, mt.n[m]), m, mt.n[n]) :
        m \in {x \in NNodes \ {n} : /\ mt.n[x] # NULLD
                                    /\ mt.n[n] # NULLD
                                    /\ Compatible(n, mt.n[x])
                                    /\ Compatible(x, mt.n[n])}}

\* A move that takes any unused device node, whatever its labels.
Moves_AnyFreeSite(mt, n) ==
    {set_mate(mt, n, d) : d \in {x \in DNodes : mt.d[x] = NULLN}}

Moves(mt, n) ==
    {set_mate(mt, n, d) : d \in {x \in DNodes : mt.d[x] = NULLN /\ Compatible(n, x)}}

Mutations(mt, n) == Swaps(mt, n) \cup Moves(mt, n)

\* A budget test that lets one iteration too many run.
BudgetLeft_OffByOne(i) == i <= MaxIterations

\* The iteration budget is not yet used up.
BudgetLeft(i) == i < MaxIterations

\* A choice of sites that does not look at whether a site is taken.
FreeSites_IgnoresMates(mt, n) == {d \in DNodes : Compatible(n, d)}

\* Initial placement of the next node: any compatible, unmated device node.
FreeSites(mt, n) == {d \in DNodes : mt.d[d] = NULLN /\ Compatible(n, d)}

InitialPlacement ==
    /\ pc = "InitialPlacement"
    /\ placeIdx <= NumNetNodes
    /\ FreeSites(Mates, placeIdx) # {}
    /\ \E d \in FreeSites(Mates, placeIdx) :
          LET mt == set_mate(Mates, placeIdx, d)
          IN  nmate' = mt.n /\ dmate' = mt.d
    /\ placeIdx' = placeIdx + 1
    /\ pc' = IF placeIdx = NumNetNodes THEN "Search" ELSE "InitialPlacement"
    /\ UNCHANGED <<graphVars, iter, result, ret, deviceVars, drcVars, outVars,
                   labelVars, extVars>>

\* No device node is left for the node: the fatal "cannot place" diagnostic.
InitialPlacementFails ==
    /\ pc = "InitialPlacement"
    /\ placeIdx <= NumNetNodes
    /\ FreeSites(Mates, placeIdx) = {}
    /\ log' = Append(log, [level |-> "ERROR", rule |-> "cannot place",
                           node |-> placeIdx, pin |-> 0, list |-> <<>>])
    /\ pc' = "Exit"
    /\ UNCHANGED <<graphVars, mateVars, engineVars, ret, deviceVars, drcVars,
                   reports, labelVars, extVars>>

\* One iteration of the search: mutate a contributing node, then accept the
\* new placement or roll it back.  A strictly improving placement is always
\* accepted, any other one by the draw of the annealing schedule.
SearchIterate ==
    /\ pc = "Search"
    /\ Score(Mates) # 0
    /\ BudgetLeft(iter)
    /\ \E n \in Contributing(Mates) :
          IF Mutations(Mates, n) = {} THEN UNCHANGED mateVars
          ELSE \E mt \in Mutations(Mates, n), draw \in BOOLEAN :
                  LET accept == Score(mt) < Score(Mates) \/ draw
                  IN  /\ nmate' = IF accept THEN mt.n ELSE nmate
                      /\ dmate' = IF accept THEN mt.d ELSE dmate
    /\ iter' = iter + 1
    /\ UNCHANGED <<pc, graphVars, placeIdx, result, ret, deviceVars, drcVars,
                   outVars, labelVars, extVars>>

\* Termination of PlaceAndRoute: success on score zero, failure on an
\* exhausted budget.
PlaceAndRoute_Return ==
    /\ pc = "Search"
    /\ Score(Mates) = 0 \/ ~BudgetLeft(iter)
    /\ result' = IF Score(Mates) = 0 THEN "success" ELSE "failure"
    /\ pc' = "PARDone"
    /\ UNCHANGED <<graphVars, mateVars, placeIdx, iter, ret, deviceVars,
                   drcVars, outVars, labelVars, extVars>>

\* ------------------------------------------------------------ device state
Parts == {"SLG46620", "SLG46621"}
IOBPins == {3, 6}
AcmpSites == <<"ACMP0", "ACMP1", "ACMP2">>
Oscs == <<"LFOSC", "RINGOSC", "RCOSC">>

\* Greenpak4EntityOutput values: GND and VDD are the power rails, PIN6 is the
\* output of IOB 6, RST_DONE the output of the power-on reset.
Signals == {"GND", "VDD", "PIN6", "VREF0", "PGA", "NETA", "NETB", "RST_DONE"}

\* The class of signal.GetRealEntity().
RealEntityClass(sig) ==
    CASE sig \in {"GND", "VDD"} -> "PowerRail"
      [] sig = "PIN6" -> "IOB"
      [] sig = "VREF0" -> "VoltageReference"
      [] sig = "PGA" -> "PGA"
      [] sig = "RST_DONE" -> "PowerOnReset"
      [] OTHER -> "LUT"

\* Greenpak4EntityOutput::IsPowerRail.
IsPowerRail(sig) == RealEntityClass(sig) = "PowerRail"

\* The configuration of an unconfigured device.
PowerOnDevice ==
    [iob |-> [p \in IOBPins |-> [analog |-> FALSE, src |-> "GND"]],
     acmpInput |-> [i \in 1..Len(AcmpSites) |-> "GND"],
     acmpPowerEn |-> [i \in 1..Len(AcmpSites) |-> "GND"],
     osc |-> [i \in 1..Len(Oscs) |-> [used |-> FALSE, pdEn |-> FALSE, pd |-> "GND"]]]

IOBConfigs == [IOBPins -> [analog : BOOLEAN, src : {"GND", "VREF0", "PGA", "NETA"}]]
AcmpConfigs == [1..Len(AcmpSites) -> {"GND", "PIN6", "VDD", "NETA"}]
OscConfigs == [1..Len(Oscs) -> [used : BOOLEAN, pdEn : BOOLEAN, pd : {"GND", "NETA", "NETB"}]]

DevIOB == {[PowerOnDevice EXCEPT !.iob = c] : c \in IOBConfigs}
DevACMP == {[PowerOnDevice EXCEPT !.acmpInput = c] : c \in AcmpConfigs}
DevOSC == {[PowerOnDevice EXCEPT !.osc = c] : c \in OscConfigs}

\* The configurations CommitChanges is followed through in the whole flow:
\* one that passes every rule, one whose comparators share the mux, and one
\* per rule that breaks it.
FlowDevices ==
    {[PowerOnDevice EXCEPT
         !.iob[3] = [analog |-> TRUE, src |-> "VREF0"],
         !.osc = [i \in 1..Len(Oscs) |-> [used |-> TRUE, pdEn |-> TRUE, pd |-> "NETA"]]],
     [PowerOnDevice EXCEPT !.iob[6] = [analog |-> FALSE, src |-> "PGA"]],
     [PowerOnDevice EXCEPT !.acmpInput =
         [i \in 1..Len(AcmpSites) |-> IF i = 1 THEN "GND" ELSE "PIN6"]],
     [PowerOnDevice EXCEPT !.acmpInput =
         [i \in 1..Len(AcmpSites) |-> IF i = 2 THEN "VDD" ELSE "PIN6"]],
     [PowerOnDevice EXCEPT !.osc =
         [i \in 1..Len(Oscs) |->
             [used |-> TRUE, pdEn |-> TRUE, pd |-> IF i = 1 THEN "NETA" ELSE "NETB"]]]}

\* ------------------------------------------------------------------ DoPAR
Diag(level, rule, node, pin, list) ==
    [level |-> level, rule |-> rule, node |-> node, pin |-> pin, list |-> list]

\* A test of PlaceAndRoute's result that never sees a failure.
PARFailed_Ignored(r) == FALSE

\* if(!engine.PlaceAndRoute(lmap, true))
PARFailed(r) == r # "success"

\* BuildGraphs, then the engine is created and started.
DoPAR_BuildGraphs ==
    /\ pc = "DoPAR"
    /\ pc' = "InitialPlacement"
    /\ placeIdx' = 1
    /\ UNCHANGED <<graphVars, mateVars, iter, result, ret, deviceVars, drcVars,
                   outVars, labelVars, extVars>>

\* A failure path that copies the placement to the device before it returns.
DoPAR_Failed_Commits ==
    /\ pc = "PARDone"
    /\ PARFailed(result)
    /\ device' \in FlowDevices
    /\ committed' = TRUE
    /\ reports' = Append(reports, "placement")
    /\ ret' = "false"
    /\ pc' = "Done"
    /\ UNCHANGED <<graphVars, mateVars, engineVars, part, device0, drcVars, log,
                   labelVars, extVars>>

\* PlaceAndRoute returned false: print the placement, return false.
DoPAR_Failed ==
    /\ pc = "PARDone"
    /\ PARFailed(result)
    /\ reports' = Append(reports, "placement")
    /\ ret' = "false"
    /\ pc' = "Done"
    /\ UNCHANGED <<graphVars, mateVars, engineVars, deviceVars, drcVars, log,
                   labelVars, extVars>>

\* The routing configuration of a device nobody configured.
PowerOnSites == [d \in DNodes |-> [mode |-> "", input |-> "NC"]]

\* The driver of a netlist node's input port, NULLN if there is none.
Driver(n) ==
    IF \E e \in nedges : e[2] = n
    THEN (CHOOSE e \in nedges : e[2] = n)[1]
    ELSE NULLN

\* CommitChanges on the sites: every mated device node takes the cell type
\* of its mate as its mode, and its input mux selects the mate of the node
\* that drives its mate; a site without mate, and an input without driver,
\* stay as they are.
CommitSites(cfg) ==
    [d \in DNodes |->
        IF dmate[d] = NULLN THEN cfg[d]
        ELSE [mode |-> ntype[dmate[d]],
              input |-> IF Driver(dmate[d]) = NULLN THEN cfg[d].input
                        ELSE nmate[Driver(dmate[d])]]]

\* The required edges that leave matrix m for the other matrix.
CrossRoutes(m) ==
    {e \in nedges : /\ Matrix(nmate[e[1]]) = m
                    /\ Matrix(nmate[e[2]]) = 1 - m}

\* A tally that counts on from the value it is handed.
CommitRoutes_Accumulates(prev) ==
    [m \in {0, 1} |-> prev[m] + Cardinality(CrossRoutes(m))]

\* CommitChanges on num_routes_used: the cross connections used, per matrix,
\* counted from zero.
CommitRoutes(prev) == [m \in {0, 1} |-> Cardinality(CrossRoutes(m))]

\* What a call of CommitChanges does to the sites and to the tally.
CommitChanges ==
    /\ sites' = CommitSites(sites)
    /\ routes' = CommitRoutes(routes)
    /\ commits' = commits + 1
    /\ sites1' = IF commits = 0 THEN sites' ELSE sites1
    /\ routes1' = IF commits = 0 THEN routes' ELSE routes1

\* PlaceAndRoute returned true: CommitChanges writes the configuration the
\* netlist implies, then PostPARDRC is entered.
DoPAR_CommitChanges ==
    /\ pc = "PARDone"
    /\ ~PARFailed(result)
    /\ device' \in FlowDevices
    /\ committed' = TRUE
    /\ CommitChanges
    /\ pc' = "DRC_Nodes"
    /\ drcI' = 1
    /\ UNCHANGED <<graphVars, mateVars, engineVars, ret, part, device0, drcDone,
                   outVars, labelVars, progVars, nodeVars>>

\* PostPARDRC returned: print the reports, delete the graphs, return true.
DoPAR_Finish ==
    /\ pc = "DRC_Return"
    /\ reports' = reports \o <<"utilization", "placement">>
    /\ ret' = "true"
    /\ pc' = "Done"
    /\ UNCHANGED <<graphVars, mateVars, engineVars, deviceVars, drcVars, log,
                   labelVars, extVars>>

\* ------------------------------------------------------------- PostPARDRC
\* mate->GetData() is evaluated before mate is compared with NULL.  With a
\* NULL mate that is undefined behaviour: the load faults ("segv"), or the
\* build has moved the load behind the test and the diagnostic is printed
\* ("diagnosed").
NullMateOutcomes == {"segv", "diagnosed"}

\* An exemption list without the output-port test.
NoLoadExempt_NoPortTest(n) ==
    \/ SiteClass(nmate[n]) = "PowerRail"
    \/ IsCell(ntype[n]) /\ ntype[n] \in {"GP_IOBUF", "GP_OBUF"}

\* The nodes the no-load check skips: the mate is a power rail, the mate has
\* no output ports, or the node is a GP_IOBUF / GP_OBUF cell.
NoLoadExempt(n) ==
    \/ SiteClass(nmate[n]) = "PowerRail"
    \/ Cardinality(GetOutputPorts(nmate[n])) = 0
    \/ IsCell(ntype[n]) /\ ntype[n] \in {"GP_IOBUF", "GP_OBUF"}

\* A warning that ends the run like an error.
AfterNoLoadWarning_Exits(next) == "Exit"

\* Where the loop goes on after the warning was printed.
AfterNoLoadWarning(next) == next

\* One pass of the loop over the netlist nodes.
PostPARDRC_Node ==
    /\ pc = "DRC_Nodes"
    /\ drcI <= NumNetNodes
    /\ LET n == drcI
           next == IF n = NumNetNodes THEN "DRC_IOB" ELSE "DRC_Nodes"
           done == IF n = NumNetNodes THEN drcDone \cup {"nodes"} ELSE drcDone
       IN  IF nmate[n] = NULLD
           THEN \E o \in NullMateOutcomes :
                   /\ pc' = IF o = "segv" THEN "Crash" ELSE "Exit"
                   /\ log' = IF o = "segv" THEN log
                             ELSE Append(log, Diag("ERROR", "unmapped", n, 0, <<>>))
                   /\ UNCHANGED drcVars
           ELSE IF NoLoadExempt(n) \/ GetEdgeCount(n) # 0
           THEN /\ pc' = next
                /\ drcI' = n + 1
                /\ drcDone' = done
                /\ UNCHANGED log
           ELSE /\ log' = Append(log, Diag("WARNING", "no load", n, 0, <<>>))
                /\ pc' = AfterNoLoadWarning(next)
                /\ drcI' = n + 1
                /\ drcDone' = IF AfterNoLoadWarning(next) = next THEN done ELSE drcDone
    /\ UNCHANGED <<graphVars, mateVars, engineVars, ret, deviceVars, reports,
                   labelVars, extVars>>

\* A test that forgets the PGA.
AnalogSourceViolation_NoPGA(iob) ==
    /\ ~iob.analog
    /\ RealEntityClass(iob.src) = "VoltageReference"

\* An IOB driven by a voltage reference or a PGA that is not an analog buffer.
AnalogSourceViolation(iob) ==
    /\ ~iob.analog
    /\ \/ RealEntityClass(iob.src) = "VoltageReference"
       \/ RealEntityClass(iob.src) = "PGA"

\* The first element of a non-empty set of pin numbers, in map order.
FirstPin(S) == CHOOSE p \in S : \A q \in S : p <= q

\* The loop over the IOBs, in pin order.
PostPARDRC_IOB ==
    /\ pc = "DRC_IOB"
    /\ LET bad == {p \in IOBPins : AnalogSourceViolation(device.iob[p])}
       IN  IF bad # {}
           THEN /\ log' = Append(log, Diag("ERROR", "analog source", 0, FirstPin(bad),
                                           <<device.iob[FirstPin(bad)].src>>))
                /\ pc' = "Exit"
                /\ UNCHANGED drcDone
           ELSE /\ pc' = "DRC_ACMP"
                /\ drcDone' = drcDone \cup {"iob"}
                /\ UNCHANGED log
    /\ UNCHANGED <<graphVars, mateVars, engineVars, ret, deviceVars, drcI,
                   reports, labelVars, extVars>>

\* The comparators using the shared mux, in index order: <<name, input>>.
RECURSIVE AcmpMuxUsers(_)
AcmpMuxUsers(i) ==
    IF i > Len(AcmpSites) THEN <<>>
    ELSE LET input == device.acmpInput[i]
             mate == dmate[AcmpSites[i]]
         IN  (IF input \in {"PIN6", "VDD"} /\ mate # NULLN
              THEN <<<<mate, input>>>> ELSE <<>>) \o AcmpMuxUsers(i + 1)

\* A scan that stops after the first active input.
MuxScan_FirstOnly(shared, inputs) ==
    [conflict |-> FALSE,
     shared |-> IF inputs = <<>> \/ shared # "GND" THEN shared
                ELSE Head(inputs)[2]]

\* The scan of the active inputs: [conflict, shared_input].
RECURSIVE MuxScan(_, _)
MuxScan(shared, inputs) ==
    IF inputs = <<>> THEN [conflict |-> FALSE, shared |-> shared]
    ELSE LET sh == IF shared = "GND" THEN Head(inputs)[2] ELSE shared
         IN  IF sh = Head(inputs)[2] THEN MuxScan(sh, Tail(inputs))
             ELSE [conflict |-> TRUE, shared |-> sh]

\* A test of ACMP0 that forgets to ask whether anyone uses the mux.
Acmp0AutoEnable_AnyInputs(inputs) == device.acmpInput[1] = "GND"

\* ACMP0 is not used itself, but a comparator needs its output.
Acmp0AutoEnable(inputs) ==
    /\ device.acmpInput[1] = "GND"
    /\ Len(inputs) > 0

\* A test of the part that takes every part for an SLG46620.
HasSharedAcmpMux_AnyPart(p) == TRUE

\* switch(device->GetPart()): case GREENPAK4_SLG46620
HasSharedAcmpMux(p) == p = "SLG46620"

\* The check of the shared ACMP0 input mux, on the SLG46620 only.
PostPARDRC_ACMP ==
    /\ pc = "DRC_ACMP"
    /\ IF HasSharedAcmpMux(part)
       THEN LET inputs == AcmpMuxUsers(1)
                scan == MuxScan("GND", inputs)
            IN  IF scan.conflict
                THEN /\ log' = Append(log, Diag("ERROR", "acmp mux", 0, 0, inputs))
                     /\ pc' = "Exit"
                     /\ UNCHANGED <<device, drcDone>>
                ELSE /\ pc' = "DRC_Oscillators"
                     /\ drcDone' = drcDone \cup {"acmp"}
                     /\ IF Acmp0AutoEnable(inputs)
                        THEN /\ log' = Append(log, Diag("INFO", "acmp0", 0, 0, <<>>))
                             /\ device' = [device EXCEPT
                                              !.acmpInput[1] = scan.shared,
                                              !.acmpPowerEn[1] = "RST_DONE"]
                        ELSE UNCHANGED <<log, device>>
       ELSE /\ pc' = "DRC_Oscillators"
            /\ drcDone' = drcDone \cup {"acmp"}
            /\ UNCHANGED <<log, device>>
    /\ UNCHANGED <<graphVars, mateVars, engineVars, ret, part, device0,
                   committed, drcI, reports, labelVars, extVars>>

\* IsConstantPowerDown of an oscillator: its power-down is a power rail.
IsConstantPowerDown(o) == IsPowerRail(o.pd)

\* The oscillators with a power-down to check, in the order LF, ring, RC.
RECURSIVE Powerdowns(_)
Powerdowns(i) ==
    IF i > Len(Oscs) THEN <<>>
    ELSE LET o == device.osc[i]
         IN  (IF o.used /\ o.pdEn /\ ~IsConstantPowerDown(o)
              THEN <<<<Oscs[i], o.pd>>>> ELSE <<>>) \o Powerdowns(i + 1)

\* A scan that takes every power-down source as the one to compare with.
PowerdownScan_AlwaysTakes(src, ok, list) == ok

\* The scan of the power-down sources: the final value of ok.
RECURSIVE PowerdownScan(_, _, _)
PowerdownScan(src, ok, list) ==
    IF list = <<>> THEN ok
    ELSE LET s == IF IsPowerRail(src) THEN Head(list)[2] ELSE src
         IN  PowerdownScan(s, ok /\ s = Head(list)[2], Tail(list))

\* The check of the oscillator power-downs; PostPARDRC returns after it.
PostPARDRC_Oscillators ==
    /\ pc = "DRC_Oscillators"
    /\ LET powerdowns == Powerdowns(1)
       IN  IF powerdowns # <<>> /\ ~PowerdownScan("GND", TRUE, powerdowns)
           THEN /\ log' = Append(log, Diag("ERROR", "oscillator powerdown", 0, 0,
                                           powerdowns))
                /\ pc' = "Exit"
                /\ UNCHANGED drcDone
           ELSE /\ pc' = "DRC_Return"
                /\ drcDone' = drcDone \cup {"osc"}
                /\ UNCHANGED log
    /\ UNCHANGED <<graphVars, mateVars, engineVars, ret, deviceVars, drcI,
                   reports, labelVars, extVars>>

\* ---------------------------------------------------------- AllocateLabel
Descriptions == {"IOB", "DFF"}

\* A comparison that accepts any two ids.
LabelsMatch_Unchecked(nlabel, dlabel) == TRUE

\* if(nlabel != dlabel) ... exit(-1)
LabelsMatch(nlabel, dlabel) == nlabel = dlabel

\* lmap[id] = description
MapPut(m, id, desc) == {p \in m : p[1] # id} \cup {<<id, desc>>}

\* AllocateLabel(ngraph, dgraph, lmap, description): PARGraph::AllocateLabel
\* on each graph hands out the graph's next id.
AllocateLabel ==
    /\ lpc # "exit"
    /\ nNextLabel < MaxLabels
    /\ dNextLabel < MaxLabels
    /\ \E description \in Descriptions :
          LET nlabel == nNextLabel
              dlabel == dNextLabel
          IN  /\ nNextLabel' = nNextLabel + 1
              /\ dNextLabel' = dNextLabel + 1
              /\ IF LabelsMatch(nlabel, dlabel)
                 THEN /\ lmap' = MapPut(lmap, nlabel, description)
                      /\ returned' = Append(returned, <<nlabel, description>>)
                      /\ lpc' = "returned"
                 ELSE /\ lpc' = "exit"
                      /\ UNCHANGED <<lmap, returned>>
    /\ UNCHANGED <<parVars, extVars>>

\* PARGraph::AllocateLabel called on one graph alone, past AllocateLabel.
PARGraph_AllocateLabel ==
    /\ lpc # "exit"
    /\ \/ /\ nNextLabel < MaxLabels
          /\ nNextLabel' = nNextLabel + 1
          /\ UNCHANGED dNextLabel
       \/ /\ dNextLabel < MaxLabels
          /\ dNextLabel' = dNextLabel + 1
          /\ UNCHANGED nNextLabel
    /\ lpc' = "idle"
    /\ UNCHANGED <<lmap, returned, parVars, extVars>>

\* --------------------------------------------------------- specifications
FlowTypes == {"GP_VDD", "GP_OBUF", "GP_DFF", "GP_DFFSR", "GP_ACMP"}

\* The placements of the netlist nodes on compatible device nodes, a node
\* possibly unplaced, no device node used twice.
Placements(ty) ==
    {f \in [NNodes -> DNodes \cup {NULLD}] :
        /\ \A n \in NNodes : f[n] # NULLD => NLabels(ty[n]) \cap DLabels(f[n]) # {}
        /\ \A n, m \in NNodes : (n # m /\ f[n] # NULLD) => f[n] # f[m]}

Inverse(f) ==
    [d \in DNodes |-> IF \E n \in NNodes : f[n] = d
                      THEN CHOOSE n \in NNodes : f[n] = d ELSE NULLN]

InitLabelsIdle ==
    /\ nNextLabel = 0
    /\ dNextLabel = 0
    /\ lmap = {}
    /\ lpc = "idle"
    /\ returned = <<>>

\* ------------------------------------------------------------------ gp4prog
\* The command line is a sequence of units, each an option together with a
\* well-formed argument where it takes one; "bit.txt" alone is a bare file
\* name.
ArgUnits ==
    {"-r", "-R out.txt", "-t", "-T 25k", "-e bit.txt", "--program bit.txt",
     "--force", "--pattern-id 5", "--read-protect", "-v 3.3", "-n 3",
     "bit.txt"}

\* The variables of main() before the first argument is looked at.
NoOptions ==
    [reset |-> FALSE, test |-> FALSE, rcOscFreq |-> 0,
     downloadFilename |-> "", uploadFilename |-> "",
     programNvram |-> FALSE, force |-> FALSE,
     patternId |-> 0, patternIdSpecified |-> FALSE, readProtect |-> FALSE,
     voltage |-> "0.0", nets |-> <<>>]

Parsed(o) == [err |-> FALSE, opt |-> o]
ParseError(o) == [err |-> TRUE, opt |-> o]

\* One round of the argument loop.
ParseArg(o, s) ==
    CASE s = "-r" -> Parsed([o EXCEPT !.reset = TRUE])
      [] s = "-R out.txt" -> Parsed([o EXCEPT !.uploadFilename = "out.txt"])
      [] s = "-t" -> Parsed([o EXCEPT !.test = TRUE])
      [] s = "-T 25k" -> Parsed([o EXCEPT !.rcOscFreq = 25000])
      [] s = "-e bit.txt" ->
            IF o.downloadFilename # "" THEN ParseError(o)
            ELSE Parsed([o EXCEPT !.downloadFilename = "bit.txt"])
      [] s = "--program bit.txt" ->
            IF o.downloadFilename # "" THEN ParseError(o)
            ELSE Parsed([o EXCEPT !.downloadFilename = "bit.txt",
                                  !.programNvram = TRUE])
      [] s = "--force" -> Parsed([o EXCEPT !.force = TRUE])
      [] s = "--pattern-id 5" ->
            Parsed([o EXCEPT !.patternIdSpecified = TRUE, !.patternId = 5])
      [] s = "--read-protect" -> Parsed([o EXCEPT !.readProtect = TRUE])
      [] s = "-v 3.3" -> Parsed([o EXCEPT !.voltage = "3.3"])
      [] s = "-n 3" -> Parsed([o EXCEPT !.nets = Append(o.nets, 3)])
      [] s = "bit.txt" ->
            IF o.downloadFilename = ""
            THEN Parsed([o EXCEPT !.downloadFilename = "bit.txt"])
            ELSE ParseError(o)
      [] OTHER -> ParseError(o)

\* The argument loop: it returns at the first argument it rejects.
RECURSIVE ParseArgs(_, _)
ParseArgs(o, args) ==
    IF args = <<>> THEN Parsed(o)
    ELSE LET r == ParseArg(o, Head(args))
         IN  IF r.err THEN r ELSE ParseArgs(r.opt, Tail(args))

\* A call of a board or file function, or a line logged.
Op(name, arg) == <<name, arg>>

\* return <code> from main().
Return(code, calls) ==
    /\ ops' = ops \o calls
    /\ rc' = code
    /\ ppc' = "Exited"

\* Go on with the next block of main().
GoOn(next, calls) ==
    /\ ops' = ops \o calls
    /\ ppc' = next
    /\ UNCHANGED rc

Main_ParseArgs ==
    /\ ppc = "Parse"
    /\ LET r == ParseArgs(NoOptions, argv)
       IN  /\ opt' = r.opt
           /\ IF r.err THEN Return("1", <<>>) ELSE GoOn("OpenBoard", <<>>)
    /\ UNCHANGED <<argv, kind, file, rcFtw, sent, hdev>>
    /\ UNCHANGED <<parVars, labelVars, commitVars, nodeVars>>

\* A test for nothing to do that lets --force count as an action.
NoActionsRequested_ForceCounts(o) ==
    /\ o.downloadFilename = ""
    /\ o.uploadFilename = ""
    /\ o.voltage = "0.0"
    /\ o.nets = <<>>
    /\ o.rcOscFreq = 0
    /\ ~o.test
    /\ ~o.reset
    /\ ~o.force

\* "run with no bitstream and no reset flag"
NoActionsRequested(o) ==
    /\ o.downloadFilename = ""
    /\ o.uploadFilename = ""
    /\ o.voltage = "0.0"
    /\ o.nets = <<>>
    /\ o.rcOscFreq = 0
    /\ ~o.test
    /\ ~o.reset

Main_OpenBoard ==
    /\ ppc = "OpenBoard"
    /\ \E found \in BOOLEAN :
          /\ hdev' = found
          /\ IF ~found THEN Return("1", <<Op("OpenBoard", "")>>)
             ELSE IF NoActionsRequested(opt)
             THEN Return("0", <<Op("OpenBoard", ""),
                                Op("LogNotice", "No actions requested")>>)
             ELSE GoOn("SetStatusLED", <<Op("OpenBoard", "")>>)
    /\ UNCHANGED <<argv, opt, kind, file, rcFtw, sent>>
    /\ UNCHANGED <<parVars, labelVars, commitVars, nodeVars>>

Main_SetStatusLED ==
    /\ ppc = "SetStatusLED"
    /\ \E ok \in BOOLEAN :
          IF ok THEN GoOn("DetectPart", <<Op("SetStatusLED", "1")>>)
          ELSE Return("1", <<Op("SetStatusLED", "1")>>)
    /\ UNCHANGED <<argv, opt, kind, file, rcFtw, sent, hdev>>
    /\ UNCHANGED <<parVars, labelVars, commitVars, nodeVars>>

\* Some option requires knowing the part.
NeedsPart(o) ==
    ~ /\ o.uploadFilename = ""
      /\ o.downloadFilename = ""
      /\ o.rcOscFreq = 0
      /\ ~o.test
      /\ ~o.programNvram

BitstreamKinds == {"EMPTY", "PROGRAMMED", "UNRECOGNIZED"}

Main_DetectPart ==
    /\ ppc = "DetectPart"
    /\ IF NeedsPart(opt)
       THEN \E ok \in BOOLEAN, k \in BitstreamKinds :
               IF ok
               THEN /\ kind' = k
                    /\ GoOn("Guard", <<Op("DetectPart", "")>>)
               ELSE /\ UNCHANGED kind
                    /\ Return("1", <<Op("DetectPart", ""),
                                      Op("SetStatusLED", "0")>>)
       ELSE /\ UNCHANGED kind
            /\ GoOn("Guard", <<>>)
    /\ UNCHANGED <<argv, opt, file, rcFtw, sent, hdev>>
    /\ UNCHANGED <<parVars, labelVars, commitVars, nodeVars>>

\* A guard that lets every part through.
RefusesToProgram_Never(o, k) == FALSE

\* Programming a part that is not empty, without --force.
RefusesToProgram(o, k) ==
    /\ o.programNvram
    /\ k # "EMPTY"
    /\ ~o.force

Main_ProgramGuard ==
    /\ ppc = "Guard"
    /\ IF RefusesToProgram(opt, kind)
       THEN Return("1", <<Op("LogError", "refusing to program without --force"),
                          Op("SetStatusLED", "0")>>)
       ELSE GoOn("Read", <<>>)
    /\ UNCHANGED <<argv, opt, kind, file, rcFtw, sent, hdev>>
    /\ UNCHANGED <<parVars, labelVars, commitVars, nodeVars>>

Main_Read ==
    /\ ppc = "Read"
    /\ IF opt.uploadFilename # ""
       THEN GoOn("SocketTest", <<Op("WriteBitstream", opt.uploadFilename)>>)
       ELSE GoOn("SocketTest", <<>>)
    /\ UNCHANGED <<argv, opt, kind, file, rcFtw, sent, hdev>>
    /\ UNCHANGED <<parVars, labelVars, commitVars, nodeVars>>

Main_SocketTest ==
    /\ ppc = "SocketTest"
    /\ IF opt.test
       THEN \E passed \in BOOLEAN :
               IF passed THEN GoOn("Reset", <<Op("SocketTest", "")>>)
               ELSE Return("1", <<Op("SocketTest", ""),
                                  Op("SetStatusLED", "0")>>)
       ELSE GoOn("Reset", <<>>)
    /\ UNCHANGED <<argv, opt, kind, file, rcFtw, sent, hdev>>
    /\ UNCHANGED <<parVars, labelVars, commitVars, nodeVars>>

Main_Reset ==
    /\ ppc = "Reset"
    /\ IF opt.reset
       THEN \E ok \in BOOLEAN :
               IF ok THEN GoOn("Trim", <<Op("Reset", "")>>)
               ELSE Return("1", <<Op("Reset", "")>>)
       ELSE GoOn("Trim", <<>>)
    /\ UNCHANGED <<argv, opt, kind, file, rcFtw, sent, hdev>>
    /\ UNCHANGED <<parVars, labelVars, commitVars, nodeVars>>

\* The values TrimOscillator may leave in rcFtw, a uint8_t.
TrimWords == {0, 1, 85, 127, 128, 255}

Main_Trim ==
    /\ ppc = "Trim"
    /\ IF opt.rcOscFreq # 0
       THEN IF opt.voltage = "0.0"
            THEN /\ Return("1", <<Op("LogError", "trimming requires voltage")>>)
                 /\ UNCHANGED rcFtw
            ELSE \E ok \in BOOLEAN, ftw \in TrimWords :
                    /\ rcFtw' = ftw
                    /\ IF ok THEN GoOn("Program", <<Op("TrimOscillator", "")>>)
                       ELSE Return("1", <<Op("TrimOscillator", "")>>)
       ELSE /\ GoOn("Program", <<>>)
            /\ UNCHANGED rcFtw
    /\ UNCHANGED <<argv, opt, kind, file, sent, hdev>>
    /\ UNCHANGED <<parVars, labelVars, commitVars, nodeVars>>

\* The bytes of the bitstream main() writes to.
PatchedBytes == {246, 247, 253, 254}

ZeroBytes == [i \in PatchedBytes |-> 0]

\* What ReadBitstream returns: nothing, a vector of the wrong length, or a
\* bitstream of the length of the part, of which bytes holds the bytes above.
NoFile == [state |-> "empty", bytes |-> ZeroBytes]
ShortFile == [state |-> "short", bytes |-> ZeroBytes]

NothingSent == [called |-> FALSE, bytes |-> ZeroBytes]

RECURSIVE BitOr(_, _)
BitOr(a, b) ==
    IF a = 0 THEN b
    ELSE IF b = 0 THEN a
    ELSE (IF a % 2 = 1 \/ b % 2 = 1 THEN 1 ELSE 0) + 2 * BitOr(a \div 2, b \div 2)

\* An assignment in the place of the |=.
OrAssign_Overwrites(byte, v) == v % 256

\* byte |= v, for a uint8_t byte and an int v.
OrAssign(byte, v) == BitOr(byte, v) % 256

\* The bitstream after the trim value, the pattern id and the read protection
\* were put in.
PatchBitstream(bs, o, ftw) ==
    LET b253 == IF o.patternIdSpecified
                THEN OrAssign(bs[253], o.patternId * 128) ELSE bs[253]
        b254 == IF o.patternIdSpecified
                THEN OrAssign(bs[254], o.patternId \div 2) ELSE bs[254]
    IN  [i \in PatchedBytes |->
            CASE i = 246 -> OrAssign(bs[246], ftw * 128)
              [] i = 247 -> OrAssign(bs[247], ftw \div 2)
              [] i = 253 -> b253
              [] i = 254 -> OrAssign(b254, (IF o.readProtect THEN 1 ELSE 0) * 128)]

Main_Program ==
    /\ ppc = "Program"
    /\ IF opt.downloadFilename = ""
       THEN /\ GoOn("Voltage", <<>>)
            /\ UNCHANGED sent
       ELSE IF file.state = "empty"
       THEN /\ Return("1", <<Op("ReadBitstream", opt.downloadFilename)>>)
            /\ UNCHANGED sent
       ELSE IF file.state = "short"
       THEN /\ Return("1", <<Op("ReadBitstream", opt.downloadFilename),
                             Op("LogError", "incorrect length"),
                             Op("SetStatusLED", "0")>>)
            /\ UNCHANGED sent
       ELSE LET mode == IF opt.programNvram THEN "PROGRAMMING" ELSE "EMULATION"
                read == <<Op("ReadBitstream", opt.downloadFilename)>>
                download == <<Op("DownloadBitstream", mode)>>
                verify == IF opt.programNvram
                          THEN <<Op("UploadBitstream", "")>> ELSE <<>>
                unstick == <<Op("SetIOConfig", "TP_RESET")>>
            IN  /\ sent' = [called |-> TRUE,
                             bytes |-> PatchBitstream(file.bytes, opt, rcFtw)]
                /\ \E downloaded \in BOOLEAN, uploaded \in BOOLEAN,
                      configured \in BOOLEAN :
                      IF ~downloaded THEN Return("1", read \o download)
                      ELSE IF opt.programNvram /\ ~uploaded
                      THEN Return("1", read \o download \o verify)
                      ELSE IF ~configured
                      THEN Return("1", read \o download \o verify \o unstick)
                      ELSE GoOn("Voltage", read \o download \o verify \o unstick)
    /\ UNCHANGED <<argv, opt, kind, file, rcFtw, hdev>>
    /\ UNCHANGED <<parVars, labelVars, commitVars, nodeVars>>

Main_Voltage ==
    /\ ppc = "Voltage"
    /\ IF opt.voltage # "0.0"
       THEN \E ok \in BOOLEAN :
               IF ok THEN GoOn("Nets", <<Op("ConfigureSiggen", opt.voltage)>>)
               ELSE Return("1", <<Op("ConfigureSiggen", opt.voltage)>>)
       ELSE GoOn("Nets", <<>>)
    /\ UNCHANGED <<argv, opt, kind, file, rcFtw, sent, hdev>>
    /\ UNCHANGED <<parVars, labelVars, commitVars, nodeVars>>

Main_Nets ==
    /\ ppc = "Nets"
    /\ IF opt.nets # <<>>
       THEN \E ok \in BOOLEAN :
               IF ok THEN GoOn("Finish", <<Op("SetIOConfig", "nets")>>)
               ELSE Return("1", <<Op("SetIOConfig", "nets")>>)
       ELSE GoOn("Finish", <<>>)
    /\ UNCHANGED <<argv, opt, kind, file, rcFtw, sent, hdev>>
    /\ UNCHANGED <<parVars, labelVars, commitVars, nodeVars>>

Main_Finish ==
    /\ ppc = "Finish"
    /\ \E ok \in BOOLEAN :
          IF ok THEN Return("0", <<Op("CheckStatus", ""), Op("SetStatusLED", "0"),
                                   Op("USBCleanup", "")>>)
          ELSE Return("1", <<Op("CheckStatus", ""), Op("LogError", "fault"),
                             Op("SetStatusLED", "0")>>)
    /\ UNCHANGED <<argv, opt, kind, file, rcFtw, sent, hdev>>
    /\ UNCHANGED <<parVars, labelVars, commitVars, nodeVars>>

Main ==
    \/ Main_ParseArgs
    \/ Main_OpenBoard
    \/ Main_SetStatusLED
    \/ Main_DetectPart
    \/ Main_ProgramGuard
    \/ Main_Read
    \/ Main_SocketTest
    \/ Main_Reset
    \/ Main_Trim
    \/ Main_Program
    \/ Main_Voltage
    \/ Main_Nets
    \/ Main_Finish

\* The parts of the state a specification leaves alone.
InitCommitIdle ==
    /\ sites = PowerOnSites
    /\ routes = [m \in {0, 1} |-> 0]
    /\ commits = 0
    /\ sites1 = sites
    /\ routes1 = routes

InitProgIdle ==
    /\ argv = <<>>
    /\ opt = NoOptions
    /\ ppc = "Idle"
    /\ rc = "none"
    /\ ops = <<>>
    /\ kind = "UNSET"
    /\ file = NoFile
    /\ rcFtw = 0
    /\ sent = NothingSent
    /\ hdev = FALSE

InitNodesIdle ==
    /\ m_nodes = {}
    /\ heap = {}
    /\ getCalls = <<>>

InitExtIdle == InitCommitIdle /\ InitProgIdle /\ InitNodesIdle

InitParIdle ==
    /\ pc = "Idle"
    /\ ntype = [n \in NNodes |-> "GP_DFF"]
    /\ nedges = {}
    /\ nmate = NoMates.n
    /\ dmate = NoMates.d
    /\ placeIdx = 1
    /\ iter = 0
    /\ result = "none"
    /\ ret = "none"
    /\ part = "SLG46620"
    /\ device = PowerOnDevice
    /\ device0 = PowerOnDevice
    /\ committed = FALSE
    /\ drcI = 1
    /\ drcDone = {}
    /\ log = <<>>
    /\ reports = <<>>

\* DoPAR is entered with a netlist and an unconfigured device.
Init ==
    /\ pc = "DoPAR"
    /\ ntype \in [NNodes -> FlowTypes]
    /\ nedges \in SUBSET CandidateEdges(ntype)
    /\ nmate = NoMates.n
    /\ dmate = NoMates.d
    /\ placeIdx = 1
    /\ iter = 0
    /\ result = "none"
    /\ ret = "none"
    /\ part \in Parts
    /\ device = PowerOnDevice
    /\ device0 = device
    /\ committed = FALSE
    /\ drcI = 1
    /\ drcDone = {}
    /\ log = <<>>
    /\ reports = <<>>
    /\ InitLabelsIdle
    /\ InitExtIdle

Engine ==
    \/ InitialPlacement
    \/ InitialPlacementFails
    \/ SearchIterate
    \/ PlaceAndRoute_Return

PostPARDRC ==
    \/ PostPARDRC_Node
    \/ PostPARDRC_IOB
    \/ PostPARDRC_ACMP
    \/ PostPARDRC_Oscillators

DoPAR ==
    \/ DoPAR_BuildGraphs
    \/ Engine
    \/ DoPAR_Failed
    \/ DoPAR_CommitChanges
    \/ PostPARDRC
    \/ DoPAR_Finish

Next == DoPAR

Spec == Init /\ [][Next]_vars

\* The process keeps running until it returns or exits.
FairSpec == Spec /\ WF_vars(Next)

\* PostPARDRC called on any mated or partly mated netlist graph and any
\* committed device: every netlist against a clean device and the devices
\* of the whole flow, and every device against small netlists.
InitDRC ==
    /\ pc = "DRC_Nodes"
    /\ \/ /\ ntype \in [NNodes -> Types]
          /\ nedges \in SUBSET CandidateEdges(ntype)
          /\ device \in {PowerOnDevice}
       \/ /\ ntype \in {[n \in NNodes |-> "GP_DFF"], [n \in NNodes |-> "GP_ACMP"]}
          /\ nedges = CandidateEdges(ntype)
          /\ device \in DevIOB \cup DevACMP \cup DevOSC
    /\ nmate \in Placements(ntype)
    /\ dmate = Inverse(nmate)
    /\ placeIdx = NumNetNodes + 1
    /\ iter = 0
    /\ result = "success"
    /\ ret = "none"
    /\ part \in Parts
    /\ device0 = device
    /\ committed = TRUE
    /\ drcI = 1
    /\ drcDone = {}
    /\ log = <<>>
    /\ reports = <<>>
    /\ InitLabelsIdle
    /\ InitExtIdle

NextDRC == PostPARDRC

SpecDRC == InitDRC /\ [][NextDRC]_vars

InitLabel == InitParIdle /\ InitLabelsIdle /\ InitExtIdle

NextLabel == AllocateLabel \/ PARGraph_AllocateLabel

SpecLabel == InitLabel /\ [][NextLabel]_vars

\* CommitChanges called again and again on a solved pair of graphs, for a
\* device fresh from power-on or carrying an older configuration, and for
\* any content of the tally array, which its caller does not initialise.
UsedSites == [d \in DNodes |-> [mode |-> "GP_DFF", input |-> "VDD"]]

InitCommit ==
    /\ pc = "Commit"
    /\ ntype \in [NNodes -> FlowTypes]
    /\ nedges \in SUBSET CandidateEdges(ntype)
    /\ nmate \in {f \in Placements(ntype) : \A n \in NNodes : f[n] # NULLD}
    /\ dmate = Inverse(nmate)
    /\ \A e \in nedges : <<nmate[e[1]], nmate[e[2]], e[3], e[4]>> \in DEdges
    /\ placeIdx = NumNetNodes + 1
    /\ iter = 0
    /\ result = "success"
    /\ ret = "none"
    /\ part = "SLG46620"
    /\ device = PowerOnDevice
    /\ device0 = device
    /\ committed = FALSE
    /\ drcI = 1
    /\ drcDone = {}
    /\ log = <<>>
    /\ reports = <<>>
    /\ sites \in {PowerOnSites, UsedSites}
    /\ routes \in {[m \in {0, 1} |-> 0], [m \in {0, 1} |-> m + 1]}
    /\ commits = 0
    /\ sites1 = sites
    /\ routes1 = routes
    /\ InitLabelsIdle
    /\ InitProgIdle
    /\ InitNodesIdle

CommitChanges_Call ==
    /\ pc = "Commit"
    /\ commits < MaxCommits
    /\ CommitChanges
    /\ UNCHANGED <<parVars, labelVars, progVars, nodeVars>>

NextCommit == CommitChanges_Call

SpecCommit == InitCommit /\ [][NextCommit]_vars

\* gp4prog run on any command line of up to MaxArgs units, against a board
\* that may be absent or fail at any call, and a bitstream file that may be
\* missing, of the wrong length, or good.
CommandLines == UNION {[1..n -> ArgUnits] : n \in 0..MaxArgs}

NamesBitstream(args) ==
    \E k \in 1..Len(args) :
        args[k] \in {"-e bit.txt", "--program bit.txt", "bit.txt"}

ProgFiles ==
    {NoFile, ShortFile,
     [state |-> "ok", bytes |-> [ZeroBytes EXCEPT ![254] = 128]]}

InitProg ==
    /\ InitParIdle
    /\ InitLabelsIdle
    /\ InitCommitIdle
    /\ InitNodesIdle
    /\ argv \in CommandLines
    /\ opt = NoOptions
    /\ ppc = "Parse"
    /\ rc = "none"
    /\ ops = <<>>
    /\ kind = "UNSET"
    /\ file \in IF NamesBitstream(argv) THEN ProgFiles ELSE {NoFile}
    /\ rcFtw = 0
    /\ sent = NothingSent
    /\ hdev = FALSE

NextProg == Main

SpecProg == InitProg /\ [][NextProg]_vars

\* main() from the download block on, for any loaded bitstream, trim value,
\* pattern id and read protection flag.
ByteSamples == {0, 85, 128, 255}

PatternIds == {0, 1, 5, 128, 170, 255}

Bitstreams ==
    {[state |-> "ok", bytes |-> b] :
        b \in {f \in [PatchedBytes -> ByteSamples] :
                  f[246] \in {0, 128} /\ f[247] \in {0, 85}}}

DownloadOptions ==
    {[NoOptions EXCEPT !.downloadFilename = "bit.txt",
                       !.programNvram = p,
                       !.patternIdSpecified = s,
                       !.patternId = id,
                       !.readProtect = r] :
        p \in BOOLEAN, s \in BOOLEAN, id \in PatternIds, r \in BOOLEAN}

InitBits ==
    /\ InitParIdle
    /\ InitLabelsIdle
    /\ InitCommitIdle
    /\ InitNodesIdle
    /\ argv = <<>>
    /\ opt \in {o \in DownloadOptions : o.patternIdSpecified \/ o.patternId = 0}
    /\ ppc = "Program"
    /\ rc = "none"
    /\ ops = <<Op("OpenBoard", ""), Op("SetStatusLED", "1"), Op("DetectPart", "")>>
    /\ kind = "EMPTY"
    /\ file \in Bitstreams
    /\ rcFtw \in TrimWords
    /\ sent = NothingSent
    /\ hdev = TRUE

NextBits == Main_Program \/ Main_Voltage \/ Main_Nets \/ Main_Finish

SpecBits == InitBits /\ [][NextBits]_vars

\* ---------------------------------------------------- Greenpak4NetlistModule
\* The net numbers GetNode is called with, int32_t values.
NetNums == {-1, 0, 1, 7}

\* The addresses new may return.
Addresses == 1..MaxCalls

InMap(nodes, netnum) == \E p \in nodes : p[1] = netnum

Lookup(nodes, netnum) == (CHOOSE p \in nodes : p[1] = netnum)[2]

\* m_nodes[netnum] = node
Store(nodes, netnum, node) ==
    {p \in nodes : p[1] # netnum} \cup {<<netnum, node>>}

\* A GetNode that creates a node at every call.
GetNode_AlwaysCreates(nodes, netnum, fresh) ==
    [nodes |-> Store(nodes, netnum, fresh), allocated |-> TRUE, node |-> fresh]

\* GetNode: find the node of the number, create it if there is none, return
\* what the map holds; fresh is the address new would return.
GetNode(nodes, netnum, fresh) ==
    IF InMap(nodes, netnum)
    THEN [nodes |-> nodes, allocated |-> FALSE, node |-> Lookup(nodes, netnum)]
    ELSE [nodes |-> Store(nodes, netnum, fresh), allocated |-> TRUE,
          node |-> fresh]

Greenpak4NetlistModule_GetNode ==
    /\ Len(getCalls) < MaxCalls
    /\ \E netnum \in NetNums, fresh \in Addresses \ heap :
          LET r == GetNode(m_nodes, netnum, fresh)
          IN  /\ m_nodes' = r.nodes
              /\ heap' = IF r.allocated THEN heap \cup {fresh} ELSE heap
              /\ getCalls' = Append(getCalls, <<netnum, r.node>>)
    /\ UNCHANGED <<parVars, labelVars, commitVars, progVars>>

InitNode == InitParIdle /\ InitLabelsIdle /\ InitCommitIdle /\ InitProgIdle /\ InitNodesIdle

NextNode == Greenpak4NetlistModule_GetNode

SpecNode == InitNode /\ [][NextNode]_vars

\* The mate operations of the graphs and the mutations of the search, called
\* in any order on any pair of nodes.
InitMate ==
    /\ pc = "Mates"
    /\ ntype \in [NNodes -> {"GP_DFF", "GP_DFFSR"}]
    /\ nedges = {}
    /\ nmate = NoMates.n
    /\ dmate = NoMates.d
    /\ placeIdx = 1
    /\ iter = 0
    /\ result = "none"
    /\ ret = "none"
    /\ part = "SLG46620"
    /\ device = PowerOnDevice
    /\ device0 = PowerOnDevice
    /\ committed = FALSE
    /\ drcI = 1
    /\ drcDone = {}
    /\ log = <<>>
    /\ reports = <<>>
    /\ InitLabelsIdle
    /\ InitExtIdle

MateFrame ==
    UNCHANGED <<pc, graphVars, engineVars, ret, deviceVars, drcVars, outVars,
                labelVars, extVars>>

PARGraphNode_set_mate ==
    /\ pc = "Mates"
    /\ \E n \in NNodes, d \in DNodes :
          LET mt == set_mate(Mates, n, d)
          IN  nmate' = mt.n /\ dmate' = mt.d
    /\ MateFrame

PARGraphNode_clear_mate ==
    /\ pc = "Mates"
    /\ \E n \in NNodes :
          LET mt == clear_mate(Mates, n)
          IN  nmate' = mt.n /\ dmate' = mt.d
    /\ MateFrame

\* A swap or a move, accepted or rolled back.
Engine_Mutate ==
    /\ pc = "Mates"
    /\ \E n \in NNodes, accept \in BOOLEAN :
          \E mt \in Mutations(Mates, n) :
             /\ nmate' = IF accept THEN mt.n ELSE nmate
             /\ dmate' = IF accept THEN mt.d ELSE dmate
    /\ MateFrame

NextMate == PARGraphNode_set_mate \/ PARGraphNode_clear_mate \/ Engine_Mutate

SpecMate == InitMate /\ [][NextMate]_vars

\* ------------------------------------------------------------------ claims
HasMate(n) == nmate[n] # NULLD

Succeeded == result = "success" \/ ret = "true"

LastDiag == log[Len(log)]

HasDiag(level) == \E k \in 1..Len(log) : log[k].level = level

\* C1: whenever the engine or DoPAR reports success, every netlist node has
\* a mate, n.mate = d implies d.mate = n (and back), and no device node is
\* the mate of two distinct netlist nodes.
C1_MatesBijectiveOnSuccess ==
    Succeeded =>
        /\ \A n \in NNodes : HasMate(n) /\ dmate[nmate[n]] = n
        /\ \A d \in DNodes : dmate[d] # NULLN => nmate[dmate[d]] = d
        /\ \A n, m \in NNodes : n # m => nmate[n] # nmate[m]

\* A successful run in which the search moved or swapped mates.
C1_Witness ==
    /\ ret = "true"
    /\ iter > 0
    /\ \E n \in NNodes : Compatible(n, "DFF0") /\ nmate[n] # "DFF0"

\* C2: whenever success is reported, every required edge of the netlist
\* graph has a device edge between the mates of its endpoints with the same
\* source and destination ports.
C2_RequiredEdgesRoutedOnSuccess ==
    Succeeded =>
        \A e \in nedges : <<nmate[e[1]], nmate[e[2]], e[3], e[4]>> \in DEdges

\* DoPAR returned true for a netlist with required edges, after a search.
C2_Witness == ret = "true" /\ Cardinality(nedges) = NumNetNodes /\ iter > 0

\* The ids a graph has allocated.
Allocated(next) == 0..(next - 1)

\* C3: right after a call of AllocateLabel returned, the labels allocated in
\* the netlist graph are those allocated in the device graph; every id
\* AllocateLabel returned has exactly one description in the label map, the
\* one it was given, and the map holds nothing else; and when the two graphs
\* hand out different ids the process has exited and the map has no entry
\* for the id of that call.
C3_LabelLockstep ==
    /\ lpc = "returned" => Allocated(nNextLabel) = Allocated(dNextLabel)
    /\ \A k \in 1..Len(returned) :
          /\ Cardinality({p \in lmap : p[1] = returned[k][1]}) = 1
          /\ returned[k] \in lmap
    /\ \A p \in lmap : \E k \in 1..Len(returned) : returned[k] = p
    /\ lpc = "exit" =>
          /\ nNextLabel # dNextLabel
          /\ \A p \in lmap : p[1] # nNextLabel - 1

\* Two calls returned, then a skew, then the fatal exit of the next call.
C3_Witness ==
    /\ lpc = "exit"
    /\ Len(returned) = 2
    /\ nNextLabel > dNextLabel

\* C5: the search never iterates beyond the budget, reports success only
\* with score zero and failure only with a non-zero score on an exhausted
\* budget, stops with success in the very step after the score is zero, and
\* always terminates.
C5_SearchTerminates ==
    /\ [](iter <= MaxIterations)
    /\ [](result = "success" => Score(Mates) = 0)
    /\ [](result = "failure" => (Score(Mates) # 0 /\ iter = MaxIterations))
    /\ [][(pc = "Search" /\ Score(Mates) = 0) => result' = "success"]_vars
    /\ <>(pc \notin {"DoPAR", "InitialPlacement", "Search"})

\* The budget ran out on a placement that is still illegal.
C5_Witness ==
    /\ result = "failure"
    /\ iter = MaxIterations
    /\ Score(Mates) > 0

\* C6: when PlaceAndRoute returns false DoPAR prints the placement report
\* and returns false; CommitChanges and PostPARDRC never run, and the site
\* configuration is the one of solver entry.  Up to the engine's return
\* nothing but the mate relation is changed.
C6_FailureLeavesDeviceUntouched ==
    /\ pc \in {"DoPAR", "InitialPlacement", "Search", "PARDone"} =>
          (device = device0 /\ ~committed /\ drcDone = {} /\ reports = <<>>)
    /\ result = "failure" =>
          /\ device = device0
          /\ ~committed
          /\ drcDone = {} /\ drcI = 1
          /\ pc \in {"PARDone", "Done"}
          /\ pc = "Done" => (ret = "false" /\ reports = <<"placement">>)

\* DoPAR returned false after the search had changed the mates.
C6_Witness ==
    /\ ret = "false"
    /\ pc = "Done"
    /\ iter = MaxIterations
    /\ \A n \in NNodes : HasMate(n)

\* C7: a netlist node without a mate that PostPARDRC encounters gets the
\* ERROR diagnostic naming it and the process exits; the node is never
\* skipped and the process does not crash.
C7_UnmatedNodeIsDiagnosed ==
    \A n \in NNodes :
        ~HasMate(n) =>
            /\ drcI <= n
            /\ (drcI = n /\ pc # "DRC_Nodes") =>
                  /\ pc = "Exit"
                  /\ Len(log) > 0
                  /\ LastDiag.level = "ERROR"
                  /\ LastDiag.rule = "unmapped"
                  /\ LastDiag.node = n

\* The number of no-load warnings naming node n.
NoLoadWarnings(n) ==
    Cardinality({k \in 1..Len(log) :
        log[k].level = "WARNING" /\ log[k].rule = "no load" /\ log[k].node = n})

\* C8 as stated, for a netlist whose nodes are all mated: a node the loop
\* has passed has exactly one warning if it has no outgoing edge, is not a
\* power rail, is not an output-only IOB (a GP_OBUF cell) and its site has
\* output ports, and none otherwise.
C8_NoLoadWarningOutputOnlyIOB ==
    (\A m \in NNodes : HasMate(m)) =>
        \A n \in NNodes :
            NoLoadWarnings(n) =
                IF /\ n < drcI
                   /\ GetEdgeCount(n) = 0
                   /\ SiteClass(nmate[n]) # "PowerRail"
                   /\ ntype[n] # "GP_OBUF"
                   /\ GetOutputPorts(nmate[n]) # {}
                THEN 1 ELSE 0

\* C8 amended: a node the loop has passed has exactly one warning if it has
\* no outgoing edge, its mate is not a power rail, its mate has output
\* ports, and it is neither a GP_OBUF nor a GP_IOBUF cell; any other node,
\* and any node with an outgoing edge, has none.
C8_NoLoadWarning ==
    \A n \in NNodes :
        NoLoadWarnings(n) =
            IF /\ n < drcI
               /\ GetEdgeCount(n) = 0
               /\ SiteClass(nmate[n]) # "PowerRail"
               /\ ntype[n] \notin {"GP_OBUF", "GP_IOBUF"}
               /\ GetOutputPorts(nmate[n]) # {}
            THEN 1 ELSE 0

\* The loop is over: a GP_IOBUF without load was passed silently, a later
\* node without load was warned about.
C8_Witness ==
    /\ "nodes" \in drcDone
    /\ ntype[1] = "GP_IOBUF" /\ GetEdgeCount(1) = 0 /\ NoLoadWarnings(1) = 0
    /\ NoLoadWarnings(NumNetNodes) = 1

\* C9: a run exits only with an ERROR diagnostic, so no warning ends it;
\* when PostPARDRC returns, every node and every rule (IOB, ACMP mux,
\* oscillator power-down) has been checked; and a run that printed a
\* warning goes on until DoPAR returns true, unless an ERROR is found.
C9_WarningsDoNotAlterControlFlow ==
    /\ [](pc \in {"Exit", "Crash"} => (Len(log) > 0 /\ LastDiag.level = "ERROR"))
    /\ []((pc = "DRC_Return" \/ ret = "true") =>
            (drcDone = {"nodes", "iob", "acmp", "osc"} /\ drcI = NumNetNodes + 1))
    /\ [](HasDiag("WARNING") => <>(HasDiag("ERROR") \/ ret = "true"))

\* DoPAR returned true although the first node checked drew a warning.
C9_Witness ==
    /\ ret = "true"
    /\ log # <<>>
    /\ log[1].level = "WARNING" /\ log[1].node = 1
    /\ ~HasDiag("ERROR")

\* The pins whose IOB is driven by a voltage reference or a PGA and is not
\* configured as an analog input buffer.
AnalogDrivenDigitalPins ==
    {p \in IOBPins : /\ ~device.iob[p].analog
                     /\ RealEntityClass(device.iob[p].src) \in {"VoltageReference", "PGA"}}

AnalogRuleFired ==
    /\ pc = "Exit"
    /\ Len(log) > 0
    /\ LastDiag.level = "ERROR"
    /\ LastDiag.rule = "analog source"

\* C10: once the loop over the netlist nodes is through and the IOB rule has
\* run, PostPARDRC has exited with the analog-source ERROR if and only if
\* some IOB is driven by a voltage reference or a PGA and is not an analog
\* input buffer, and the pin it names is such an IOB.
C10_AnalogSourceRule ==
    /\ ("nodes" \in drcDone /\ pc # "DRC_IOB") =>
          (AnalogRuleFired <=> AnalogDrivenDigitalPins # {})
    /\ AnalogRuleFired => LastDiag.pin \in AnalogDrivenDigitalPins
    /\ "iob" \in drcDone => AnalogDrivenDigitalPins = {}

\* Pin 6, digital and driven by the PGA, is named; pin 3 is driven by the
\* voltage reference and configured as analog.
C10_Witness ==
    /\ AnalogRuleFired
    /\ LastDiag.pin = 6
    /\ device.iob[6].src = "PGA"
    /\ device.iob[3] = [analog |-> TRUE, src |-> "VREF0"]

\* The comparators that are mated and take their input from the shared mux,
\* in the configuration cfg.
MuxUsers(cfg) ==
    {i \in 1..Len(AcmpSites) :
        /\ cfg.acmpInput[i] \in {"PIN6", "VDD"}
        /\ dmate[AcmpSites[i]] # NULLN}

MuxConflict(cfg) ==
    \E i, j \in MuxUsers(cfg) : cfg.acmpInput[i] # cfg.acmpInput[j]

AcmpRuleReached == "iob" \in drcDone /\ pc # "DRC_ACMP"

AcmpRuleFired ==
    /\ pc = "Exit"
    /\ Len(log) > 0
    /\ LastDiag.rule = "acmp mux"

\* C11: on the SLG46620, once the comparator rule has run, PostPARDRC has
\* exited on it if and only if two mated comparators using the shared mux
\* ask for different inputs; the diagnostic then lists each such comparator
\* once with the input it asks for; on another part the rule never fires.
C11_AcmpMuxConflict ==
    AcmpRuleReached =>
        /\ AcmpRuleFired <=> (part = "SLG46620" /\ MuxConflict(device0))
        /\ AcmpRuleFired =>
              /\ LastDiag.level = "ERROR"
              /\ Len(LastDiag.list) = Cardinality(MuxUsers(device0))
              /\ \A i \in MuxUsers(device0) :
                    \E k \in 1..Len(LastDiag.list) :
                        LastDiag.list[k] =
                            <<dmate[AcmpSites[i]], device0.acmpInput[i]>>

\* The rule fired where the two conflicting comparators are not ACMP0, and
\* the higher-numbered one asks for pin 6.
C11_Witness ==
    /\ AcmpRuleFired
    /\ Cardinality(MuxUsers(device0)) >= 2
    /\ 1 \notin MuxUsers(device0)
    /\ device0.acmpInput[3] = "PIN6"

InfoLines == {k \in 1..Len(log) : log[k].level = "INFO"}

\* C12: on the SLG46620, after the comparator rule passed: if ACMP0's input
\* was ground and some mated comparator uses the shared mux, ACMP0's input is
\* the source they agree on, its power enable is the reset-done signal and
\* one INFO line was printed; otherwise ACMP0 is as it was and no INFO line
\* was printed.
C12_Acmp0AutoEnable ==
    (part = "SLG46620" /\ "acmp" \in drcDone) =>
        IF device0.acmpInput[1] = "GND" /\ MuxUsers(device0) # {}
        THEN /\ \A i \in MuxUsers(device0) :
                    device.acmpInput[1] = device0.acmpInput[i]
             /\ device.acmpPowerEn[1] = "RST_DONE"
             /\ Cardinality(InfoLines) = 1
        ELSE /\ device.acmpInput[1] = device0.acmpInput[1]
             /\ device.acmpPowerEn[1] = device0.acmpPowerEn[1]
             /\ InfoLines = {}

\* ACMP0 was switched on for a comparator on VDD.
C12_Witness ==
    /\ part = "SLG46620"
    /\ "acmp" \in drcDone
    /\ device0.acmpInput[1] = "GND"
    /\ device0.acmpPowerEn[1] # "RST_DONE"
    /\ device.acmpInput[1] = "VDD"
    /\ InfoLines # {}

\* The oscillators whose power-down the rule looks at.
PowerdownUsers ==
    {i \in 1..Len(Oscs) :
        /\ device0.osc[i].used
        /\ device0.osc[i].pdEn
        /\ ~IsPowerRail(device0.osc[i].pd)}

OscRuleReached == "acmp" \in drcDone /\ pc # "DRC_Oscillators"

OscRuleFired ==
    /\ pc = "Exit"
    /\ Len(log) > 0
    /\ LastDiag.rule = "oscillator powerdown"

\* C13: once the oscillator rule has run, PostPARDRC has exited on it if and
\* only if two oscillators that are used, have power-down enabled and a
\* power-down source that is not a constant have different sources.
C13_OscillatorPowerdown ==
    OscRuleReached =>
        (OscRuleFired <=>
            \E i, j \in PowerdownUsers :
                device0.osc[i].pd # device0.osc[j].pd)

\* The rule fired on the last two oscillators, the first one not counting.
C13_Witness ==
    /\ OscRuleFired
    /\ 1 \notin PowerdownUsers
    /\ Cardinality(PowerdownUsers) = 2

\* Every mated netlist node sits on a device node that shares a label with
\* it and that is mated to it alone.
MatesLegal ==
    \A n \in NNodes :
        HasMate(n) =>
            /\ Compatible(n, nmate[n])
            /\ dmate[nmate[n]] = n
            /\ \A m \in NNodes : m # n => nmate[m] # nmate[n]

CannotPlace ==
    /\ pc = "Exit"
    /\ Len(log) > 0
    /\ LastDiag.rule = "cannot place"

\* C14: a step of the initial placement mates the next netlist node to a
\* device node that shares a label with it and had no mate, and touches no
\* other mate; when no such device node is left the step is the fatal
\* "cannot place" diagnostic naming the node, after which success is never
\* reported; and in every state every mate is label-compatible and not
\* shared.
C14_InfeasiblePlacement ==
    /\ [](MatesLegal)
    /\ [](CannotPlace =>
            /\ LastDiag.level = "ERROR"
            /\ FreeSites(Mates, LastDiag.node) = {}
            /\ ~Succeeded)
    /\ [][pc = "InitialPlacement" =>
            IF \E d \in DNodes : dmate[d] = NULLN /\ Compatible(placeIdx, d)
            THEN /\ nmate'[placeIdx] # NULLD
                 /\ dmate[nmate'[placeIdx]] = NULLN
                 /\ Compatible(placeIdx, nmate'[placeIdx])
                 /\ \A m \in NNodes \ {placeIdx} : nmate'[m] = nmate[m]
            ELSE CannotPlace' /\ LastDiag'.node = placeIdx]_vars
    /\ [][CannotPlace => CannotPlace' /\ ~Succeeded']_vars

\* The second node of the netlist found no site left: the part has one
\* site of its kind and the first node took it.
C14_Witness ==
    /\ CannotPlace
    /\ LastDiag.node = 2
    /\ HasMate(1)
    /\ ~HasMate(2)

\* C15: a second or later CommitChanges on graphs that did not change leaves
\* the configuration of every site and the returned tally as the first one
\* left them.
C15_CommitIdempotent ==
    commits >= 2 => (sites = sites1 /\ routes = routes1)

\* Committed twice, where the commit selected an input and used a cross
\* connection, on a device that carried something else before.
C15_Witness ==
    /\ commits >= 2
    /\ \E d \in DNodes : sites[d].mode = "GP_DFFSR" /\ sites[d].input = "DFF0"
    /\ \E d \in DNodes : sites[d].mode = "GP_DFF" /\ sites[d].input = "VDD"
    /\ routes[0] > 0

\* Bit n of a bitstream, bit 0 being the lowest bit of byte 0.
BitSet(bytes, n) == (bytes[n \div 8] \div (2 ^ (n % 8))) % 2 = 1

\* C16: in the bitstream handed to DownloadBitstream, every pattern id bit
\* (2031..2038) and the read protection bit (2039) that was set in the file
\* is still set; the read protection bit is the file's bit or the
\* --read-protect flag; and bit k of the pattern id field is the file's bit
\* or, when --pattern-id was given, bit k of its value.
C16_PatternIdAndReadProtectOred ==
    sent.called =>
        /\ \A n \in 2031..2039 :
              BitSet(file.bytes, n) => BitSet(sent.bytes, n)
        /\ BitSet(sent.bytes, 2039) <=>
              (BitSet(file.bytes, 2039) \/ opt.readProtect)
        /\ \A k \in 0..7 :
              BitSet(sent.bytes, 2031 + k) <=>
                 \/ BitSet(file.bytes, 2031 + k)
                 \/ /\ opt.patternIdSpecified
                    /\ (opt.patternId \div (2 ^ k)) % 2 = 1

\* A download of a file that had pattern id and read protection bits set,
\* with a pattern id that adds a bit to each of the two bytes and leaves
\* others clear, and without --read-protect.
C16_Witness ==
    /\ sent.called
    /\ opt.patternIdSpecified
    /\ opt.patternId = 5
    /\ ~opt.readProtect
    /\ file.bytes[253] = 128
    /\ file.bytes[254] = 128
    /\ sent.bytes[254] = 130

Called(op) == \E k \in 1..Len(ops) : ops[k] = op

\* The place of a board instruction in the list of the usage text, 0 for a
\* call that is not one of the instructions.
UsageRank(op) ==
    CASE op[1] = "Reset" -> 1
      [] op[1] = "WriteBitstream" -> 2
      [] op[1] = "SocketTest" -> 3
      [] op[1] = "TrimOscillator" -> 4
      [] op[1] = "DownloadBitstream" -> 5
      [] op[1] = "ConfigureSiggen" -> 6
      [] op = Op("SetIOConfig", "nets") -> 7
      [] OTHER -> 0

\* C17: the board instructions are carried out in the order of the usage
\* text: reset, read, test-socket, trim, emulate/program, voltage, nets.
C17_UsageOrder ==
    \A i, j \in 1..Len(ops) :
        (i < j /\ UsageRank(ops[i]) > 0 /\ UsageRank(ops[j]) > 0) =>
            UsageRank(ops[i]) <= UsageRank(ops[j])

\* C18: a run with -e <file> alone that got to its end has reset the board
\* and set Vdd to 3.3 V.
C18_EmulateImpliesResetAndVoltage ==
    (argv = <<"-e bit.txt">> /\ ppc = "Exited" /\ rc = "0") =>
        /\ Called(Op("Reset", ""))
        /\ Called(Op("ConfigureSiggen", "3.3"))

\* C19: DownloadBitstream is called in programming mode only for a part
\* detected as empty or with --force; and once a part was detected as not
\* empty in a run that asks for programming without --force, the run has
\* logged the refusal, turned the LED off and exited with status 1, having
\* called nothing else after DetectPart.
C19_ProgramGuard ==
    /\ Called(Op("DownloadBitstream", "PROGRAMMING")) =>
          (kind = "EMPTY" \/ opt.force)
    /\ (/\ opt.programNvram
        /\ ~opt.force
        /\ kind \in BitstreamKinds \ {"EMPTY"}
        /\ ppc # "Guard") =>
          /\ ppc = "Exited"
          /\ rc = "1"
          /\ ops = <<Op("OpenBoard", ""), Op("SetStatusLED", "1"),
                     Op("DetectPart", ""),
                     Op("LogError", "refusing to program without --force"),
                     Op("SetStatusLED", "0")>>

\* The refusal in a run that also asked for a read and a socket test.
C19_Witness ==
    /\ ppc = "Exited"
    /\ rc = "1"
    /\ opt.programNvram
    /\ ~opt.force
    /\ kind = "PROGRAMMED"
    /\ opt.uploadFilename # ""
    /\ opt.test

\* The command line asks for none of the board instructions.
ArgvNoAction ==
    \A k \in 1..Len(argv) :
        argv[k] \in {"--force", "--pattern-id 5", "--read-protect"}

\* C20: a run whose command line asks for no board instruction calls
\* OpenBoard and nothing else of the board, and exits with status 0 once the
\* board was found, whether or not --force, --pattern-id or --read-protect
\* were given.
C20_NoActionRun ==
    ArgvNoAction =>
        /\ \A k \in 1..Len(ops) : ops[k][1] \in {"OpenBoard", "LogNotice"}
        /\ ppc = "Exited" =>
              /\ Called(Op("OpenBoard", ""))
              /\ hdev => rc = "0"

\* Such a run with --force, --pattern-id and --read-protect, at its end.
C20_Witness ==
    /\ ArgvNoAction
    /\ opt.force
    /\ opt.patternIdSpecified
    /\ opt.readProtect
    /\ ppc = "Exited"
    /\ rc = "0"

\* The search is under way or has ended: the initial placement is complete.
InSearch == pc \in {"Search", "PARDone"}

\* A legal placement: every netlist node has a mate that shares a label with
\* it, and every required edge has a device edge with the same ports between
\* the mates of its endpoints.
Legal ==
    /\ \A n \in NNodes : HasMate(n) /\ Compatible(n, nmate[n])
    /\ \A e \in nedges : <<nmate[e[1]], nmate[e[2]], e[3], e[4]>> \in DEdges

\* C21: in every state of the search, after the initial placement and after
\* every accepted or rejected mutation, every netlist node is mated to a
\* device node that shares a label with it, so the score is zero if and only
\* if the placement is legal.
C21_ScoreZeroMeansLegal ==
    InSearch =>
        /\ \A n \in NNodes : HasMate(n) /\ Compatible(n, nmate[n])
        /\ Score(Mates) = 0 <=> Legal

\* The search has brought a netlist with required edges to score zero.
C21_Witness ==
    /\ pc = "Search"
    /\ iter > 0
    /\ nedges # {}
    /\ Score(Mates) = 0

\* C22: in every state, n.mate = d if and only if d.mate = n, no device node
\* is the mate of two netlist nodes, and a node without mate is the mate of
\* no node of the other graph.
C22_MateSymmetryAlways ==
    /\ \A n \in NNodes, d \in DNodes : nmate[n] = d <=> dmate[d] = n
    /\ \A n, m \in NNodes : (n # m /\ HasMate(n)) => nmate[n] # nmate[m]
    /\ \A n \in NNodes : ~HasMate(n) => \A d \in DNodes : dmate[d] # n
    /\ \A d \in DNodes : dmate[d] = NULLN => \A n \in NNodes : nmate[n] # d

\* One node is mated and the other is not, with sites left behind free.
C22_Witness ==
    /\ pc = "Mates"
    /\ nmate[1] = NULLD
    /\ nmate[2] = "DFFSR1"
    /\ dmate["DFFSR1"] = 2
    /\ dmate["DFFSR0"] = NULLN

\* C23: a step of PostPARDRC changes neither graph nor the mate relation nor
\* the part, and of the device nothing but the input and the power enable of
\* ACMP0; on a part other than the SLG46620 it changes nothing of the device
\* at all; and when the process has exited on a comparator mux conflict the
\* device is as it was on entry.
C23_PostPARDRCFrame ==
    /\ [][/\ UNCHANGED <<graphVars, mateVars, part, sites>>
          /\ device'.iob = device.iob
          /\ device'.osc = device.osc
          /\ \A i \in 2..Len(AcmpSites) :
                /\ device'.acmpInput[i] = device.acmpInput[i]
                /\ device'.acmpPowerEn[i] = device.acmpPowerEn[i]
          /\ part # "SLG46620" => device' = device]_vars
    /\ [](part # "SLG46620" => device = device0)
    /\ [](AcmpRuleFired => device = device0)

\* PostPARDRC ran to its end on an SLG46620 and left ACMP0 changed.
C23_Witness ==
    /\ pc = "DRC_Return"
    /\ part = "SLG46620"
    /\ device # device0
    /\ device.acmpInput[1] # device0.acmpInput[1]

\* The bits of the two bytes the trim step writes to.
TrimStepBits == 1968..1983

\* C24: in the bitstream handed to DownloadBitstream, every bit of the bytes
\* the trim step writes to that lies outside 1975..1981 is as it was in the
\* file.
C24_TrimWritesTrimFieldOnly ==
    sent.called =>
        \A n \in TrimStepBits \ (1975..1981) :
            BitSet(sent.bytes, n) <=> BitSet(file.bytes, n)

\* C25: after any sequence of GetNode calls the map holds exactly one node
\* for each net number asked for and for no other; two calls returned the
\* same node if and only if they asked for the same number; every call
\* returned the node the map holds for its number; and a call leaves every
\* entry of the map in its place.
C25_GetNodeGetOrCreate ==
    /\ []( /\ {p[1] : p \in m_nodes} = {getCalls[k][1] : k \in 1..Len(getCalls)}
           /\ \A p, q \in m_nodes : p[1] = q[1] => p = q
           /\ \A i, j \in 1..Len(getCalls) :
                 getCalls[i][1] = getCalls[j][1] <=> getCalls[i][2] = getCalls[j][2]
           /\ \A k \in 1..Len(getCalls) : getCalls[k] \in m_nodes )
    /\ [][m_nodes \subseteq m_nodes']_vars

\* A number was asked for again after another number had been asked for.
C25_Witness ==
    /\ Len(getCalls) >= 3
    /\ getCalls[1][1] = getCalls[3][1]
    /\ getCalls[1][1] # getCalls[2][1]
    /\ Cardinality(m_nodes) = 2

====
